---- MODULE Spec2Model ----
(***************************************************************************)
(* A model of the Pinterest-clone REST server: the relational store of the *)
(* migration (users, pins, pin_likes, pin_saves, user_follows with their   *)
(* UNIQUE / CHECK / ON DELETE CASCADE constraints) and the request         *)
(* handlers of server/routes.  A handler is a sequence of store round      *)
(* trips; every round trip is one atomic step, and the steps of concurrent *)
(* requests interleave freely.                                             *)
(***************************************************************************)
EXTENDS Integers, Sequences, FiniteSets, Bags, TLC

VARIABLES
    db,       \* the relational store: one bag of rows per table
    reqs,     \* the requests in flight, one per connection slot
    started,  \* observer: number of operations issued so far
    turn,     \* the slot that has waited longest for a request
    view,     \* observer: the last response of a read endpoint
    cloud,    \* the blob store: the URLs of the images uploaded to it
    ui        \* the browser: the state of the pages and the requests they wait for

vars == <<db, reqs, started, turn, view, cloud, ui>>

(***************************************************************************)
(* Bounds of the model.                                                    *)
(***************************************************************************)
MaxOps == 3

Slots == {"r1", "r2"}

\* ids that requests may name; u9 and p9 never reference a stored row
UserIdSpace == {"u1", "u2", "u9"}
PinIdSpace == {"p1", "p9"}

NoToken == [uid |-> "-", valid |-> FALSE]
\* a bearer token: the identity it claims and whether signature and expiry verify
Tokens ==
    {[uid |-> "u1", valid |-> TRUE], [uid |-> "u2", valid |-> TRUE],
     [uid |-> "u1", valid |-> FALSE]}

(***************************************************************************)
(* The store.                                                              *)
(***************************************************************************)
EmptyDb ==
    [users |-> {}, pins |-> {}, pin_likes |-> EmptyBag, pin_saves |-> EmptyBag,
     user_follows |-> EmptyBag, now |-> 0]

UserRow(id, email, username, hash) ==
    [id |-> id, email |-> email, username |-> username, password_hash |-> hash]

PinRow(id, owner, title, description, category, at) ==
    [id |-> id, user_id |-> owner, title |-> title, description |-> description,
     category |-> category, created_at |-> at]

UserIds(d) == {u.id : u \in d.users}
PinIds(d) == {p.id : p \in d.pins}

\* rows of a pin_likes / pin_saves table for one (pin, user) pair
PinUserRows(tbl, pinId, userId) ==
    {r \in BagToSet(tbl) : r.pin_id = pinId /\ r.user_id = userId}

\* rows of user_follows for one (follower, following) pair
FollowRows(tbl, followerId, followingId) ==
    {r \in BagToSet(tbl) : r.follower_id = followerId /\ r.following_id = followingId}

\* number of rows of a bag that lie in a set of rows
CountIn(tbl, rows) == BagCardinality([r \in rows |-> tbl[r]])

\* the rows of a bag that satisfy no row of `rows`
Without(tbl, rows) == [r \in (DOMAIN tbl) \ rows |-> tbl[r]]

\* variant: the query never finds the row
SingleFoundNever(tbl, rows) == FALSE
\* supabase .single(): data is the row when exactly one row matches, else null
SingleFound(tbl, rows) == CountIn(tbl, rows) = 1

\* REFERENCES pins(id) / users(id)
FkPinOk(d, pinId) == pinId \in PinIds(d)
FkUserOk(d, userId) == userId \in UserIds(d)

\* variant: a table without the constraint
UniquePinUserOkNoCheck(tbl, pinId, userId) == TRUE
\* UNIQUE(pin_id, user_id)
UniquePinUserOk(tbl, pinId, userId) == PinUserRows(tbl, pinId, userId) = {}

\* UNIQUE(follower_id, following_id)
UniqueFollowOk(tbl, a, b) == FollowRows(tbl, a, b) = {}

\* CHECK (follower_id != following_id)
CheckFollowOk(a, b) == a # b

\* INSERT INTO pin_likes / pin_saves: the error the store reports ("-": none)
\* and the store after the statement
InsertPinUser(d, tname, pinId, userId) ==
    LET row == [pin_id |-> pinId, user_id |-> userId, created_at |-> d.now] IN
    IF ~(FkPinOk(d, pinId) /\ FkUserOk(d, userId))
    THEN [err |-> "foreign_key", db |-> d]
    ELSE IF ~UniquePinUserOk(d[tname], pinId, userId)
    THEN [err |-> "unique", db |-> d]
    ELSE [err |-> "-", db |-> [d EXCEPT ![tname] = @ (+) SetToBag({row})]]

\* INSERT INTO user_follows
InsertFollow(d, a, b) ==
    LET row == [follower_id |-> a, following_id |-> b, created_at |-> d.now] IN
    IF ~(FkUserOk(d, a) /\ FkUserOk(d, b))
    THEN [err |-> "foreign_key", db |-> d]
    ELSE IF ~CheckFollowOk(a, b)
    THEN [err |-> "check", db |-> d]
    ELSE IF ~UniqueFollowOk(d.user_follows, a, b)
    THEN [err |-> "unique", db |-> d]
    ELSE [err |-> "-", db |-> [d EXCEPT !.user_follows = @ (+) SetToBag({row})]]

\* variant: a delete filtered by the pin only
DeletePinUserOfPin(d, tname, pinId, userId) ==
    [d EXCEPT ![tname] = Without(@, {r \in DOMAIN @ : r.pin_id = pinId})]
\* variant: a delete that matches no row
DeletePinUserNothing(d, tname, pinId, userId) == d
\* DELETE FROM pin_likes / pin_saves WHERE pin_id = .. AND user_id = ..
DeletePinUser(d, tname, pinId, userId) ==
    [d EXCEPT ![tname] = Without(@, PinUserRows(@, pinId, userId))]

\* DELETE FROM user_follows WHERE follower_id = .. AND following_id = ..
DeleteFollow(d, a, b) ==
    [d EXCEPT !.user_follows = Without(@, FollowRows(@, a, b))]

\* variant: foreign keys without ON DELETE CASCADE
DeletePinsNoCascade(d, ids) ==
    [d EXCEPT !.pins = {p \in @ : p.id \notin ids}]
\* DELETE FROM pins WHERE id IN ids, with ON DELETE CASCADE to likes and saves
DeletePinsCascade(d, ids) ==
    [d EXCEPT !.pins = {p \in @ : p.id \notin ids},
              !.pin_likes = Without(@, {r \in DOMAIN @ : r.pin_id \in ids}),
              !.pin_saves = Without(@, {r \in DOMAIN @ : r.pin_id \in ids})]

\* DELETE FROM users WHERE id = u, cascading to the user's pins (and through
\* them to the likes and saves of those pins), likes, saves and follow edges
DeleteUserCascade(d, u) ==
    LET d1 == DeletePinsCascade(d, {p.id : p \in {q \in d.pins : q.user_id = u}}) IN
    [d1 EXCEPT !.users = {x \in @ : x.id # u},
               !.pin_likes = Without(@, {r \in DOMAIN @ : r.user_id = u}),
               !.pin_saves = Without(@, {r \in DOMAIN @ : r.user_id = u}),
               !.user_follows =
                   Without(@, {r \in DOMAIN @ : r.follower_id = u \/ r.following_id = u})]

(***************************************************************************)
(* Read responses.                                                         *)
(***************************************************************************)
\* a raw query parameter that is absent
Absent == [t |-> "absent", v |-> 0]

NoQuery == [page |-> Absent, limit |-> Absent, search |-> <<>>, category |-> ""]

\* the response of a read endpoint; NoView before any
NoView ==
    [endpoint |-> "-", id |-> "-", q |-> NoQuery, status |-> 0, pins |-> <<>>,
     page |-> 0, limit |-> 0, hasMore |-> FALSE]

(***************************************************************************)
(* The browser before any page is shown.                                   *)
(***************************************************************************)
\* a PinCard that is not mounted
NoCard ==
    [mounted |-> FALSE, isLiked |-> FALSE, isSaved |-> FALSE, likesCount |-> 0,
     savesCount |-> 0]

\* PinDetailsPage before it is shown: useState(false), useState(0)
NoDetails ==
    [mounted |-> FALSE, loaded |-> FALSE, isLiked |-> FALSE, isSaved |-> FALSE,
     likesCount |-> 0, savesCount |-> 0]

\* ProfilePage before it is shown: useState(false), useState(0)
NoProfile ==
    [mounted |-> FALSE, loaded |-> FALSE, isFollowing |-> FALSE, followersCount |-> 0]

\* no click waits for its response
NoClick == [widget |-> "-", kind |-> "-", count |-> 0]

\* HomePage: searchQuery, pins, loading, hasMore, page; fetches: the calls of
\* fetchPins that wait for their response; issued: how many calls were made;
\* empties: how many responses to loadMore held no pin; actionTriggered: InfiniteScroll
\* has called next since the list last changed length; toast: the last
\* notification
\* card: the PinCard of pin p1; details: PinDetailsPage; profile:
\* ProfilePage; user: the token of the logged-in user; pending: for each
\* request a click has sent, the control and the count its handler holds
NoUi ==
    [mounted |-> FALSE, query |-> <<>>, pins |-> <<>>, loading |-> TRUE,
     hasMore |-> TRUE, page |-> 1, fetches |-> {}, issued |-> 0, empties |-> 0,
     actionTriggered |-> FALSE, toast |-> "-", card |-> NoCard,
     details |-> NoDetails, profile |-> NoProfile, user |-> NoToken,
     pending |-> [r \in Slots |-> NoClick]]

(***************************************************************************)
(* Requests.                                                               *)
(***************************************************************************)
ToggleKinds == {"like", "save", "follow"}

TableOf(kind) == IF kind = "like" THEN "pin_likes" ELSE "pin_saves"

\* the body of a signup or login request
NoInput ==
    [email |-> "", password |-> "", username |-> "", firstName |-> "", lastName |-> ""]

\* a text field of a multipart body: undefined, or a string
Undefined == [t |-> "undefined", v |-> <<>>]
Str(s) == [t |-> "string", v |-> s]
\* req.body of POST /api/pins; NoBody elsewhere
NoBody ==
    [title |-> Undefined, description |-> Undefined, link |-> Undefined,
     category |-> Undefined]
\* req.file: the part sent in the field "image" and, once stored, its URL
NoFile == [part |-> "none", path |-> "-"]

\* the user record of a response; NoUser when the response carries none
NoUser == [id |-> "-"]

IdleReq ==
    [pc |-> "idle", kind |-> "-", token |-> NoToken, obj |-> "-", user |-> "-",
     input |-> NoInput, existing |-> FALSE, status |-> 0, active |-> FALSE,
     err |-> "-", msg |-> "-", issued |-> NoToken, ret |-> NoUser,
     body |-> NoBody, file |-> NoFile,
     alone |-> FALSE, before |-> EmptyDb, after |-> EmptyDb]

\* middleware/auth.js: verify the token and load the user row it names
AuthenticateToken(d, token) ==
    IF token.valid /\ token.uid \in UserIds(d)
    THEN [ok |-> TRUE, user |-> token.uid]
    ELSE [ok |-> FALSE, user |-> "-"]

\* variant: a handler without the existence check
PinFoundAlways(d, pinId) == TRUE
\* select('id').eq('id', pinId).single(): the pin existence check of a handler
PinFound(d, pinId) == pinId \in PinIds(d)

\* select('id').eq('id', targetUserId).single(): the target existence check
UserFound(d, userId) == userId \in UserIds(d)

\* variant: a handler without the ownership check
OwnsPinAlways(d, pinId, userId) == TRUE
\* pin.user_id === userId, for the row of select('id, user_id').eq('id', pinId)
OwnsPin(d, pinId, userId) == \E p \in d.pins : p.id = pinId /\ p.user_id = userId

\* variant: a handler without the self-follow check
IsSelfFollowNoCheck(targetUserId, currentUserId) == FALSE
\* if (targetUserId === currentUserId)
IsSelfFollow(targetUserId, currentUserId) == targetUserId = currentUserId

\* the response of a request
Respond(rq, status, active, err, msg) ==
    [rq EXCEPT !.pc = "done", !.status = status, !.active = active, !.err = err,
               !.msg = msg]

InFlight(r) == reqs[r].pc \notin {"idle", "done"}

\* observer: a request in flight that another operation overlaps did not run
\* alone, and the stores it arrived at and left are not kept for it
Overlapped(rq) ==
    IF rq.pc \notin {"idle", "done"}
    THEN [rq EXCEPT !.alone = FALSE, !.before = EmptyDb]
    ELSE rq

\* the slot's next request record and the store after the step; a finished
\* request that ran alone keeps the store it arrived at (before) and the
\* store it left (after)
Step(r, rq, d) ==
    /\ reqs' = [x \in Slots |->
                  IF x # r THEN reqs[x]
                  ELSE IF rq.pc = "done" /\ rq.alone THEN [rq EXCEPT !.after = d]
                  ELSE rq]
    /\ db' = d

\* the step of an arriving request: the requests in flight are overlapped
Arrive(r, rq) ==
    /\ reqs' = [x \in Slots |->
                  IF x # r THEN Overlapped(reqs[x])
                  ELSE IF rq.pc = "done" /\ rq.alone THEN [rq EXCEPT !.after = db]
                  ELSE rq]
    /\ db' = db

\* slots are interchangeable: an arriving request takes the free slot that
\* has waited longest, so the records of the two latest requests are kept
FirstFree(r) == ~InFlight(r) /\ (r = turn \/ InFlight(turn))
NextTurn(r) == CHOOSE x \in Slots : x # r

\* a request arrives: authenticateToken, then the handler up to its first query
Arrival(r, kind, token, obj) ==
    /\ FirstFree(r)
    /\ turn' = NextTurn(r)
    /\ started < MaxOps
    /\ started' = started + 1
    /\ LET a == AuthenticateToken(db, token)
           quiet == \A x \in Slots \ {r} : ~InFlight(x)
           rq == [IdleReq EXCEPT !.pc = "checkObj", !.kind = kind, !.token = token,
                                 !.obj = obj, !.user = a.user, !.alone = quiet,
                                 !.before = IF quiet THEN db ELSE EmptyDb]
       IN  IF ~a.ok
           THEN Arrive(r, Respond(rq, 401, FALSE, "-", "Unauthorized"))
           ELSE IF kind = "follow" /\ IsSelfFollow(obj, a.user)
           THEN Arrive(r, Respond(rq, 400, FALSE, "-", "Cannot follow yourself"))
           ELSE Arrive(r, rq)

\* a request of a client the model does not follow
Auth(r, kind, token, obj) ==
    /\ Arrival(r, kind, token, obj)
    /\ UNCHANGED <<view, cloud, ui>>

\* the object existence query of like / save / follow, and the existence and
\* ownership query of delete
CheckObj(r) ==
    LET rq == reqs[r] IN
    /\ rq.pc = "checkObj"
    /\ IF rq.kind = "follow"
       THEN IF UserFound(db, rq.obj)
            THEN Step(r, [rq EXCEPT !.pc = "checkRow"], db)
            ELSE Step(r, Respond(rq, 404, FALSE, "-", "User not found"), db)
       ELSE IF ~PinFound(db, rq.obj)
       THEN Step(r, Respond(rq, 404, FALSE, "-", "Pin not found"), db)
       ELSE IF rq.kind = "delete"
       THEN IF ~OwnsPin(db, rq.obj, rq.user)
            THEN Step(r, Respond(rq, 403, FALSE, "-", "Not authorized to delete this pin"), db)
            ELSE Step(r, [rq EXCEPT !.pc = "write"], db)
       ELSE Step(r, [rq EXCEPT !.pc = "checkRow"], db)
    /\ UNCHANGED <<started, turn, view, cloud, ui>>

\* the "already liked / saved / following" query
CheckRow(r) ==
    LET rq == reqs[r] IN
    /\ rq.pc = "checkRow"
    /\ LET found ==
               IF rq.kind = "follow"
               THEN SingleFound(db.user_follows, FollowRows(db.user_follows, rq.user, rq.obj))
               ELSE SingleFound(db[TableOf(rq.kind)],
                                PinUserRows(db[TableOf(rq.kind)], rq.obj, rq.user))
       IN  Step(r, [rq EXCEPT !.pc = "write", !.existing = found], db)
    /\ UNCHANGED <<started, turn, view, cloud, ui>>

\* the delete or insert of a toggle, and its response
ToggleWrite(r) ==
    LET rq == reqs[r] IN
    /\ rq.pc = "write"
    /\ rq.kind \in ToggleKinds
    /\ IF rq.existing
       THEN LET d == IF rq.kind = "follow"
                     THEN DeleteFollow(db, rq.user, rq.obj)
                     ELSE DeletePinUser(db, TableOf(rq.kind), rq.obj, rq.user)
            IN  Step(r, Respond(rq, 200, FALSE, "-", "removed"), d)
       ELSE LET ins == IF rq.kind = "follow"
                       THEN InsertFollow(db, rq.user, rq.obj)
                       ELSE InsertPinUser(db, TableOf(rq.kind), rq.obj, rq.user)
            IN  IF ins.err # "-"
                THEN Step(r, Respond(rq, 500, FALSE, ins.err, "Failed"), ins.db)
                ELSE Step(r, Respond(rq, 200, TRUE, "-", "added"), ins.db)
    /\ UNCHANGED <<started, turn, view, cloud, ui>>

\* DELETE /api/pins/:id after the ownership check
DeletePinWrite(r) ==
    LET rq == reqs[r] IN
    /\ rq.pc = "write"
    /\ rq.kind = "delete"
    /\ Step(r, Respond(rq, 200, FALSE, "-", "Pin deleted successfully"),
            DeletePinsCascade(db, {rq.obj}))
    /\ UNCHANGED <<started, turn, view, cloud, ui>>

\* a user row is deleted in the store (no endpoint does it; the schema
\* defines what follows)
DeleteUser(u) ==
    /\ started < MaxOps
    /\ u \in UserIds(db)
    /\ started' = started + 1
    /\ db' = DeleteUserCascade(db, u)
    /\ reqs' = [x \in Slots |-> Overlapped(reqs[x])]
    /\ UNCHANGED <<turn, view, cloud, ui>>

(***************************************************************************)
(* The store two signed-up users have made: one pin, no relationships.     *)
(***************************************************************************)
InitDb ==
    [EmptyDb EXCEPT
        !.users = {UserRow("u1", "e1", "n1", "h1"), UserRow("u2", "e2", "n2", "h2")},
        !.pins = {PinRow("p1", "u1", <<"a">>, <<>>, "general", 0)}]

Init ==
    /\ db = InitDb
    /\ reqs = [r \in Slots |-> IdleReq]
    /\ started = 0
    /\ turn = "r1"
    /\ view = NoView
    /\ cloud = {}
    /\ ui = NoUi

ObjSpace(kind) == IF kind = "follow" THEN UserIdSpace ELSE PinIdSpace

Next ==
    \/ \E r \in Slots, kind \in ToggleKinds \cup {"delete"}, token \in Tokens :
          \E obj \in ObjSpace(kind) : Auth(r, kind, token, obj)
    \/ \E r \in Slots : CheckObj(r)
    \/ \E r \in Slots : CheckRow(r)
    \/ \E r \in Slots : ToggleWrite(r)
    \/ \E r \in Slots : DeletePinWrite(r)
    \/ \E u \in UserIdSpace : DeleteUser(u)

\* concurrent requests: the steps of the slots interleave
Spec == Init /\ [][Next]_vars

(***************************************************************************)
(* The feeds: GET /pins, GET /users/:id/pins, GET /users/:id/saved.  Each  *)
(* is one query, so one step; the observer keeps the response of the first *)
(* read.  Text is a sequence of characters.                                *)
(***************************************************************************)
MaxPage == 2
MaxLimit == 2
MaxTime == 2
DefaultPage == 1
DefaultLimit == 20

\* a raw query parameter that is not a number, or the digits of an integer
NotANumber == [t |-> "nan", v |-> 0]
IntParam(n) == [t |-> "int", v |-> n]
PageParams == {Absent, NotANumber} \cup {IntParam(n) : n \in -1..MaxPage}
LimitParams == {Absent} \cup {IntParam(n) : n \in -1..MaxLimit}

\* parseInt(x) || dflt: NaN and 0 are falsy
ParseIntOr(raw, dflt) == IF raw.t = "int" /\ raw.v # 0 THEN raw.v ELSE dflt

SearchSpace == {<<>>, <<"a">>, <<"B">>, <<"a", "b">>, <<"b", "a">>, <<"_">>, <<"a", "_">>}
CategorySpace == {"", "art", "general"}

Queries ==
    [page : PageParams, limit : LimitParams, search : SearchSpace,
     category : CategorySpace]
\* the queries of the endpoints that read only page and limit
PageQueries == {q \in Queries : q.search = <<>> /\ q.category = ""}

Lower(c) == IF c = "A" THEN "a" ELSE IF c = "B" THEN "b" ELSE c

\* PostgreSQL ILIKE: % matches any text, _ any one character, any other
\* character itself without regard to case
RECURSIVE ILike(_, _)
ILike(str, pat) ==
    IF pat = <<>> THEN str = <<>>
    ELSE IF Head(pat) = "%"
    THEN ILike(str, Tail(pat)) \/ (str # <<>> /\ ILike(Tail(str), pat))
    ELSE /\ str # <<>>
         /\ (Head(pat) = "_" \/ Lower(Head(pat)) = Lower(Head(str)))
         /\ ILike(Tail(str), Tail(pat))

\* title.ilike.%search%,description.ilike.%search%
SearchMatches(pin, search) ==
    LET pat == <<"%">> \o search \o <<"%">> IN
    ILike(pin.title, pat) \/ ILike(pin.description, pat)

\* the rows the filters of GET /pins keep
FilteredPins(d, q) ==
    {p \in d.pins :
        /\ (q.search # <<>> => SearchMatches(p, q.search))
        /\ (q.category # "" => p.category = q.category)}

\* the set of all orderings of a set of rows
Perms(S) ==
    {f \in [1..Cardinality(S) -> S] : \A i, j \in 1..Cardinality(S) : f[i] = f[j] => i = j}

\* ORDER BY created_at DESC: rows of equal created_at come in any order
OrderedDesc(S) ==
    {f \in Perms(S) : \A i, j \in 1..Cardinality(S) : i < j => f[i].created_at >= f[j].created_at}

Min(a, b) == IF a < b THEN a ELSE b

\* .range(offset, offset + limit - 1), sent as offset and limit; the store
\* rejects a negative offset or limit
RangeOk(offset, limit) == offset >= 0 /\ limit >= 0
RangeRows(rows, offset, limit) == SubSeq(rows, offset + 1, Min(offset + limit, Len(rows)))

\* variant: both counts taken from the likes
WithCountsFromLikes(d, pin) ==
    [id |-> pin.id, user_id |-> pin.user_id, title |-> pin.title,
     description |-> pin.description, category |-> pin.category,
     created_at |-> pin.created_at,
     likes_count |-> CountIn(d.pin_likes, {r \in BagToSet(d.pin_likes) : r.pin_id = pin.id}),
     saves_count |-> CountIn(d.pin_likes, {r \in BagToSet(d.pin_likes) : r.pin_id = pin.id})]
\* pin with likes_count and saves_count in place of the joined rows
WithCounts(d, pin) ==
    [id |-> pin.id, user_id |-> pin.user_id, title |-> pin.title,
     description |-> pin.description, category |-> pin.category,
     created_at |-> pin.created_at,
     likes_count |-> CountIn(d.pin_likes, {r \in BagToSet(d.pin_likes) : r.pin_id = pin.id}),
     saves_count |-> CountIn(d.pin_saves, {r \in BagToSet(d.pin_saves) : r.pin_id = pin.id})]

\* variant: hasMore whenever the page is not empty
HasMoreNonEmpty(returned, limit) == returned > 0
\* hasMore: pins.length === limit
HasMore(returned, limit) == returned = limit

\* the response for the rows a feed query selects, in the order the store
\* returns them (for the saved feed, each save row as the pin it joins)
FeedResponse(endpoint, id, q, d, rows) ==
    LET page == ParseIntOr(q.page, DefaultPage)
        limit == ParseIntOr(q.limit, DefaultLimit)
        offset == (page - 1) * limit
        base == [NoView EXCEPT !.endpoint = endpoint, !.id = id, !.q = q,
                               !.page = page, !.limit = limit]
    IN  IF ~RangeOk(offset, limit)
        THEN [base EXCEPT !.status = 500]
        ELSE LET got == RangeRows(rows, offset, limit) IN
             [base EXCEPT !.status = 200,
                          !.pins = [i \in 1..Len(got) |-> WithCounts(d, got[i])],
                          !.hasMore = HasMore(Len(got), limit)]

\* savedPins.map(save => save.pins): the pin each save row references
PinsOfSaves(d, saves) ==
    [i \in 1..Len(saves) |-> CHOOSE p \in d.pins : p.id = saves[i].pin_id]

\* GET /api/pins
GetPins(q) ==
    /\ view = NoView
    /\ \E rows \in OrderedDesc(FilteredPins(db, q)) :
           view' = FeedResponse("pins", "-", q, db, rows)
    /\ UNCHANGED <<db, reqs, started, turn, cloud, ui>>

\* GET /api/users/:id/pins
GetUserPins(id, q) ==
    /\ view = NoView
    /\ \E rows \in OrderedDesc({p \in db.pins : p.user_id = id}) :
           view' = FeedResponse("userPins", id, q, db, rows)
    /\ UNCHANGED <<db, reqs, started, turn, cloud, ui>>

\* GET /api/users/:id/saved: the caller's pin_saves rows, newest save first,
\* each replaced by its pin
GetSaved(token, id, q) ==
    /\ view = NoView
    /\ LET a == AuthenticateToken(db, token) IN
       IF ~a.ok
       THEN view' = [NoView EXCEPT !.endpoint = "saved", !.id = id, !.q = q, !.status = 401]
       ELSE IF id # a.user
       THEN view' = [NoView EXCEPT !.endpoint = "saved", !.id = id, !.q = q, !.status = 403]
       ELSE \E rows \in OrderedDesc({r \in BagToSet(db.pin_saves) : r.user_id = id}) :
                view' = FeedResponse("saved", id, q, db, PinsOfSaves(db, rows))
    /\ UNCHANGED <<db, reqs, started, turn, cloud, ui>>

\* the stores the feeds are read from: some of three pins, two of them created
\* at the same instant, and the saves u1 made of them, one at a time, at or
\* after their creation
FeedPins ==
    {PinRow("p1", "u1", <<"a">>, <<>>, "general", 1),
     PinRow("p2", "u1", <<"A", "b">>, <<"b", "a">>, "art", MaxTime),
     PinRow("p3", "u2", <<"b">>, <<"A">>, "Art", MaxTime)}

SaveRow(pinId, userId, at) == [pin_id |-> pinId, user_id |-> userId, created_at |-> at]

FeedDbs ==
    {[InitDb EXCEPT !.pins = ps, !.pin_saves = SetToBag(sv)] :
        ps \in SUBSET FeedPins,
        sv \in SUBSET {SaveRow(p.id, "u1", t) : p \in FeedPins, t \in 1..(MaxTime + 1)}}

FeedDbOk(d) ==
    /\ \A r \in BagToSet(d.pin_saves) :
           \E p \in d.pins : p.id = r.pin_id /\ p.created_at <= r.created_at
    /\ \A r1, r2 \in BagToSet(d.pin_saves) :
           (r1.pin_id = r2.pin_id \/ r1.created_at = r2.created_at) => r1 = r2

InitFeed ==
    /\ db \in {d \in FeedDbs : FeedDbOk(d)}
    /\ reqs = [r \in Slots |-> IdleReq]
    /\ started = 0
    /\ turn = "r1"
    /\ view = NoView
    /\ cloud = {}
    /\ ui = NoUi

NextFeed ==
    \/ \E q \in Queries : GetPins(q)
    \/ \E id \in UserIdSpace, q \in PageQueries : GetUserPins(id, q)
    \/ \E token \in Tokens, id \in UserIdSpace, q \in PageQueries : GetSaved(token, id, q)

SpecFeed == InitFeed /\ [][NextFeed]_vars

(***************************************************************************)
(* Accounts: POST /auth/signup and POST /auth/login.                       *)
(***************************************************************************)
Emails == {"", "e1", "e2"}
Passwords == {"", "pw1", "pw2"}
Usernames == {"n1", "n2"}
Salts == {"s1", "s2"}
\* gen_random_uuid(): the ids the store has to give
UuidPool == {"u1", "u2", "u3", "u4"}

SignupInputs ==
    {in \in [email : Emails, password : Passwords, username : Usernames,
             firstName : {"", "F"}, lastName : {"L"}] :
        Cardinality({f \in {"email", "password", "firstName"} : in[f] = ""}) <= 1}

LoginInputs ==
    {in \in [email : Emails, password : Passwords, username : {""},
             firstName : {""}, lastName : {""}] :
        in.email # "" \/ in.password # ""}

\* bcrypt.hash(password, saltRounds): a salted one-way digest of the password
BcryptHash(password, salt) == <<"bcrypt", salt, password>>

\* variant: a comparison that accepts every password
BcryptCompareAny(password, hash) == TRUE
\* bcrypt.compare(password, hash): hash the password with the salt of hash
BcryptCompare(password, hash) == BcryptHash(password, hash[2]) = hash

\* generateToken(userId): jwt.sign({ userId }, secret, { expiresIn: '7d' })
GenerateToken(userId) == [uid |-> userId, valid |-> TRUE]

\* variant: a users table without UNIQUE(email)
UniqueEmailOkNoCheck(d, email) == TRUE
\* UNIQUE(email), UNIQUE(username)
UniqueEmailOk(d, email) == \A u \in d.users : u.email # email
UniqueUsernameOk(d, username) == \A u \in d.users : u.username # username

\* INSERT INTO users
InsertUser(d, id, email, username, hash) ==
    IF ~(UniqueEmailOk(d, email) /\ UniqueUsernameOk(d, username))
    THEN [err |-> "unique", db |-> d]
    ELSE [err |-> "-", db |-> [d EXCEPT !.users = @ \cup {UserRow(id, email, username, hash)}]]

\* .select('id, email, username, ...') of the inserted row
SignupColumns(u) == [id |-> u.id, email |-> u.email, username |-> u.username]

\* variant: the user row as stored
WithPassword(u) == u
\* const { password_hash, ...userWithoutPassword } = user
WithoutPassword(u) == [f \in (DOMAIN u) \ {"password_hash"} |-> u[f]]

RespondUser(rq, status, msg, user) ==
    [Respond(rq, status, FALSE, "-", msg) EXCEPT
        !.issued = GenerateToken(user.id), !.ret = user]

\* POST /auth/signup up to the insert: validation and the existing-user query
SignupCheck(r, in) ==
    /\ FirstFree(r)
    /\ turn' = NextTurn(r)
    /\ started < MaxOps
    /\ started' = started + 1
    /\ LET quiet == \A x \in Slots \ {r} : ~InFlight(x)
           rq == [IdleReq EXCEPT !.pc = "signupInsert", !.kind = "signup", !.input = in,
                                 !.alone = quiet,
                                 !.before = IF quiet THEN db ELSE EmptyDb]
           found == {u \in db.users : u.email = in.email \/ u.username = in.username}
       IN  IF in.email = "" \/ in.password = "" \/ in.username = ""
              \/ in.firstName = "" \/ in.lastName = ""
           THEN Arrive(r, Respond(rq, 400, FALSE, "-", "All fields are required"))
           ELSE IF Cardinality(found) = 1
           THEN Arrive(r, Respond(rq, 400, FALSE, "-",
                                  IF \E u \in found : u.email = in.email
                                  THEN "Email already exists"
                                  ELSE "Username already exists"))
           ELSE Arrive(r, rq)
    /\ UNCHANGED <<view, cloud, ui>>

\* POST /auth/signup: hash the password, insert the row, answer
SignupInsert(r) ==
    LET rq == reqs[r] IN
    /\ rq.pc = "signupInsert"
    /\ \E salt \in Salts :
           LET id == CHOOSE x \in UuidPool : x \notin UserIds(db)
               ins == InsertUser(db, id, rq.input.email, rq.input.username,
                                 BcryptHash(rq.input.password, salt))
           IN  IF ins.err # "-"
               THEN Step(r, Respond(rq, 500, FALSE, ins.err, "Failed to create user"), ins.db)
               ELSE Step(r, RespondUser(rq, 201, "User created successfully",
                                        SignupColumns(UserRow(id, rq.input.email,
                                                              rq.input.username, "-"))),
                         ins.db)
    /\ UNCHANGED <<started, turn, view, cloud, ui>>

\* variant: an answer that names the missing account
UnknownEmailRevealed(rq) == Respond(rq, 404, FALSE, "-", "User not found")
\* if (error || !user) return res.status(401).json({ error: 'Invalid credentials' })
UnknownEmail(rq) == Respond(rq, 401, FALSE, "-", "Invalid credentials")
\* if (!isPasswordValid) return res.status(401).json({ error: 'Invalid credentials' })
WrongPassword(rq) == Respond(rq, 401, FALSE, "-", "Invalid credentials")

\* POST /auth/login: validation, the query by email and the password check
Login(r, in) ==
    /\ FirstFree(r)
    /\ turn' = NextTurn(r)
    /\ started < MaxOps
    /\ started' = started + 1
    /\ LET rq == [IdleReq EXCEPT !.kind = "login", !.input = in, !.alone = TRUE,
                                 !.before = db]
           found == {u \in db.users : u.email = in.email}
       IN  IF in.email = "" \/ in.password = ""
           THEN Arrive(r, Respond(rq, 400, FALSE, "-", "Email and password are required"))
           ELSE IF Cardinality(found) # 1
           THEN Arrive(r, UnknownEmail(rq))
           ELSE LET user == CHOOSE u \in found : TRUE IN
                IF ~BcryptCompare(in.password, user.password_hash)
                THEN Arrive(r, WrongPassword(rq))
                ELSE Arrive(r, RespondUser(rq, 200, "Login successful",
                                           WithoutPassword(user)))
    /\ UNCHANGED <<view, cloud, ui>>

\* GET /auth/me: authenticateToken puts the user row in req.user, and the
\* handler answers it without the hash
GetMe(r, token) ==
    /\ FirstFree(r)
    /\ turn' = NextTurn(r)
    /\ started < MaxOps
    /\ started' = started + 1
    /\ LET a == AuthenticateToken(db, token)
           rq == [IdleReq EXCEPT !.kind = "me", !.token = token, !.user = a.user,
                                 !.alone = TRUE, !.before = db]
       IN  IF ~a.ok
           THEN Arrive(r, Respond(rq, 401, FALSE, "-", "Unauthorized"))
           ELSE LET user == CHOOSE u \in db.users : u.id = a.user IN
                Arrive(r, [Respond(rq, 200, FALSE, "-", "-") EXCEPT
                               !.ret = WithoutPassword(user)])
    /\ UNCHANGED <<view, cloud, ui>>

InitAuth ==
    /\ db = EmptyDb
    /\ reqs = [r \in Slots |-> IdleReq]
    /\ started = 0
    /\ turn = "r1"
    /\ view = NoView
    /\ cloud = {}
    /\ ui = NoUi

NextAuth ==
    \/ \E r \in Slots, in \in SignupInputs : SignupCheck(r, in)
    \/ \E r \in Slots : SignupInsert(r)
    \/ \E r \in Slots, in \in LoginInputs : Login(r, in)
    \/ \E r \in Slots, token \in Tokens : GetMe(r, token)

SpecAuth == InitAuth /\ [][NextAuth]_vars

(***************************************************************************)
(* Pin creation: POST /api/pins behind authenticateToken and the upload    *)
(* middleware, and the form of CreatePinPage that sends it.                *)
(***************************************************************************)
\* creations are among the first MaxCreates operations
MaxCreates == 2

\* !x of a text field: undefined and the empty string are falsy
FalsyOnlyUndefined(x) == x.t = "undefined"
Falsy(x) == x.t = "undefined" \/ Len(x.v) = 0

\* x || dflt
OrElse(x, dflt) == IF Falsy(x) THEN dflt ELSE x.v

Titles == {Undefined, Str(<<>>), Str(<<"a">>)}
Bodies == {[NoBody EXCEPT !.title = t] : t \in Titles}

\* the part in the field "image": none, an image, a file that is not an
\* image, an image above the size limit
FileParts == {"none", "image", "text", "big"}

\* limit: '20', the page size HomePage asks for
HomeLimit == 20
\* the most pins a store holds before the requests: two full pages and one
MaxPins == 2 * HomeLimit + 1

\* gen_random_uuid() of pins.id: the n-th id the store gives
PinUuids == [i \in 1..(MaxPins + MaxCreates + 1) |-> "p" \o ToString(i)]

\* the URL the blob store gives the next image
NextUrl(c) == <<"pinterest-clone", Cardinality(c) + 1>>

\* variant: a row that references no uploaded image
ImageUrlNone(file) == <<"pinterest-clone", 0>>
\* image_url: req.file.path
ImageUrl(file) == file.path

\* the row of INSERT INTO pins
NewPinRow(d, body, file, userId) ==
    [id |-> PinUuids[d.now + 1], user_id |-> userId, title |-> body.title.v,
     description |-> OrElse(body.description, <<>>),
     link |-> OrElse(body.link, <<>>),
     category |-> OrElse(body.category, "general"),
     image_url |-> ImageUrl(file), created_at |-> d.now]

\* INSERT INTO pins: user_id REFERENCES users(id)
InsertPin(d, row) ==
    IF ~FkUserOk(d, row.user_id)
    THEN [err |-> "foreign_key", db |-> d]
    ELSE [err |-> "-", db |-> [d EXCEPT !.pins = @ \cup {row}, !.now = @ + 1]]

\* pin: { ...pin, likes_count: 0, saves_count: 0 }
CreatedPin(d, pin) ==
    [id |-> pin.id, user_id |-> pin.user_id, title |-> pin.title,
     description |-> pin.description, category |-> pin.category,
     created_at |-> pin.created_at, likes_count |-> 0, saves_count |-> 0]

\* POST /api/pins arrives: authenticateToken
CreatePin(r, token, body, part) ==
    /\ FirstFree(r)
    /\ turn' = NextTurn(r)
    /\ started < MaxCreates
    /\ started' = started + 1
    /\ LET a == AuthenticateToken(db, token)
           quiet == \A x \in Slots \ {r} : ~InFlight(x)
           rq == [IdleReq EXCEPT !.pc = "upload", !.kind = "create", !.token = token,
                                 !.user = a.user, !.body = body,
                                 !.file = [NoFile EXCEPT !.part = part],
                                 !.alone = quiet,
                                 !.before = IF quiet THEN db ELSE EmptyDb]
       IN  IF ~a.ok
           THEN Arrive(r, Respond(rq, 401, FALSE, "-", "Unauthorized"))
           ELSE Arrive(r, rq)
    /\ UNCHANGED <<view, cloud, ui>>

\* upload.single('image') and handleUploadError: the file filter, the size
\* limit and the transfer of an image to the blob store, which succeeds and
\* sets req.file.path, or fails
Upload(r) ==
    LET rq == reqs[r] IN
    /\ rq.pc = "upload"
    /\ \/ /\ rq.file.part = "none"
          /\ Step(r, [rq EXCEPT !.pc = "createInsert"], db)
          /\ cloud' = cloud
       \/ /\ rq.file.part = "text"
          /\ Step(r, Respond(rq, 400, FALSE, "-", "Only image files are allowed"), db)
          /\ cloud' = cloud
       \/ /\ rq.file.part = "big"
          /\ Step(r, Respond(rq, 400, FALSE, "-", "File too large. Maximum size is 5MB."), db)
          /\ cloud' = cloud
       \/ /\ rq.file.part = "image"
          /\ Step(r, [rq EXCEPT !.pc = "createInsert", !.file.path = NextUrl(cloud)], db)
          /\ cloud' = cloud \cup {NextUrl(cloud)}
       \/ /\ rq.file.part = "image"
          /\ Step(r, Respond(rq, 500, FALSE, "upload", "Something went wrong!"), db)
          /\ cloud' = cloud
    /\ UNCHANGED <<started, turn, view, ui>>

\* the handler of POST /api/pins: validation, insert, response
CreateInsert(r) ==
    LET rq == reqs[r] IN
    /\ rq.pc = "createInsert"
    /\ IF Falsy(rq.body.title) \/ rq.file.part = "none"
       THEN Step(r, Respond(rq, 400, FALSE, "-", "Title and image are required"), db)
       ELSE LET row == NewPinRow(db, rq.body, rq.file, rq.user)
                ins == InsertPin(db, row)
            IN  IF ins.err # "-"
                THEN Step(r, Respond(rq, 500, FALSE, ins.err, "Failed to create pin"), ins.db)
                ELSE Step(r, [Respond(rq, 201, FALSE, "-", "Pin created successfully")
                                 EXCEPT !.obj = row.id, !.ret = CreatedPin(ins.db, row)],
                          ins.db)
    /\ UNCHANGED <<started, turn, view, cloud, ui>>

RECURSIVE TrimStart(_)
TrimStart(s) == IF s # <<>> /\ Head(s) = " " THEN TrimStart(Tail(s)) ELSE s
RECURSIVE TrimEnd(_)
TrimEnd(s) ==
    IF s # <<>> /\ s[Len(s)] = " " THEN TrimEnd(SubSeq(s, 1, Len(s) - 1)) ELSE s
\* String.prototype.trim
Trim(s) == TrimEnd(TrimStart(s))

\* the state of the form: formData.title and selectedFile
Forms == [title : {<<>>, <<" ">>, <<"a">>, <<" ", "a">>}, selectedFile : {"none", "image"}]

\* CreatePinPage handleSubmit: no request without a file or a title; else
\* the form is posted with the trimmed fields
HandleSubmit(r, token, form) ==
    /\ form.selectedFile # "none"
    /\ Trim(form.title) # <<>>
    /\ CreatePin(r, token, [NoBody EXCEPT !.title = Str(Trim(form.title)),
                                          !.description = Str(<<>>),
                                          !.link = Str(<<>>)],
                 form.selectedFile)

InitCreate ==
    /\ db = [InitDb EXCEPT !.pins = {}]
    /\ reqs = [r \in Slots |-> IdleReq]
    /\ started = 0
    /\ turn = "r1"
    /\ view = NoView
    /\ cloud = {}
    /\ ui = NoUi

NextCreate ==
    \/ \E r \in Slots, token \in Tokens, body \in Bodies, part \in FileParts :
          CreatePin(r, token, body, part)
    \/ \E r \in Slots, token \in Tokens, form \in Forms : HandleSubmit(r, token, form)
    \/ \E r \in Slots : Upload(r)
    \/ \E r \in Slots : CreateInsert(r)
    \/ \E u \in UserIdSpace : DeleteUser(u)

SpecCreate == InitCreate /\ [][NextCreate]_vars

(***************************************************************************)
(* Profiles: GET /api/users/:id, four store round trips.                   *)
(***************************************************************************)
\* select('*', { count: 'exact', head: true }).eq('user_id', user.id) on pins
PinsCount(d, id) == Cardinality({p \in d.pins : p.user_id = id})

\* variant: the count of the rows the user follows
FollowersCountByFollower(d, id) ==
    CountIn(d.user_follows, {x \in DOMAIN d.user_follows : x.follower_id = id})
\* ... .eq('following_id', user.id) on user_follows
FollowersCount(d, id) ==
    CountIn(d.user_follows, {x \in DOMAIN d.user_follows : x.following_id = id})

\* ... .eq('follower_id', user.id) on user_follows
FollowingCount(d, id) ==
    CountIn(d.user_follows, {x \in DOMAIN d.user_follows : x.follower_id = id})

\* the body of the response: the user's public columns and the three counts
Profile(id, pins, followers, following) ==
    [id |-> id, pins_count |-> pins, followers_count |-> followers,
     following_count |-> following]

\* GET /api/users/:id arrives: the query of the user row
GetProfile(r, id) ==
    /\ FirstFree(r)
    /\ turn' = NextTurn(r)
    /\ started < MaxOps
    /\ started' = started + 1
    /\ LET quiet == \A x \in Slots \ {r} : ~InFlight(x)
           rq == [IdleReq EXCEPT !.pc = "pinsCount", !.kind = "profile", !.obj = id,
                                 !.ret = Profile(id, 0, 0, 0), !.alone = quiet,
                                 !.before = IF quiet THEN db ELSE EmptyDb]
       IN  IF ~UserFound(db, id)
           THEN Arrive(r, Respond([rq EXCEPT !.ret = NoUser], 404, FALSE, "-",
                                  "User not found"))
           ELSE Arrive(r, rq)
    /\ UNCHANGED <<view, cloud, ui>>

\* the count of the user's pins
ReadPinsCount(r) ==
    LET rq == reqs[r] IN
    /\ rq.pc = "pinsCount"
    /\ Step(r, [rq EXCEPT !.pc = "followersCount",
                          !.ret.pins_count = PinsCount(db, rq.obj)], db)
    /\ UNCHANGED <<started, turn, view, cloud, ui>>

\* the count of the user's followers
ReadFollowersCount(r) ==
    LET rq == reqs[r] IN
    /\ rq.pc = "followersCount"
    /\ Step(r, [rq EXCEPT !.pc = "followingCount",
                          !.ret.followers_count = FollowersCount(db, rq.obj)], db)
    /\ UNCHANGED <<started, turn, view, cloud, ui>>

\* the count of the users the user follows, and the response
ReadFollowingCount(r) ==
    LET rq == reqs[r] IN
    /\ rq.pc = "followingCount"
    /\ Step(r, [Respond(rq, 200, FALSE, "-", "-") EXCEPT
                    !.ret.following_count = FollowingCount(db, rq.obj)], db)
    /\ UNCHANGED <<started, turn, view, cloud, ui>>

NextProfile ==
    \/ \E r \in Slots, kind \in {"follow", "delete"}, token \in Tokens :
          \E obj \in ObjSpace(kind) : Auth(r, kind, token, obj)
    \/ \E r \in Slots : CheckObj(r)
    \/ \E r \in Slots : CheckRow(r)
    \/ \E r \in Slots : ToggleWrite(r)
    \/ \E r \in Slots : DeletePinWrite(r)
    \/ \E r \in Slots, id \in UserIdSpace : GetProfile(r, id)
    \/ \E r \in Slots : ReadPinsCount(r)
    \/ \E r \in Slots : ReadFollowersCount(r)
    \/ \E r \in Slots : ReadFollowingCount(r)

\* profiles read between the steps of follow toggles and pin deletions
SpecProfile == Init /\ [][NextProfile]_vars

(***************************************************************************)
(* The responses that carry a pin, read while likes and saves are toggled  *)
(* and pins are created.                                                   *)
(***************************************************************************)
\* GET /api/pins/:id: the pin with its joined like and save rows, or 404
GetPin(id) ==
    /\ view = NoView
    /\ LET found == {p \in db.pins : p.id = id}
           base == [NoView EXCEPT !.endpoint = "pin", !.id = id]
       IN  IF Cardinality(found) # 1
           THEN view' = [base EXCEPT !.status = 404]
           ELSE view' = [base EXCEPT !.status = 200,
                                     !.pins = <<WithCounts(db, CHOOSE p \in found : TRUE)>>]
    /\ UNCHANGED <<db, reqs, started, turn, cloud, ui>>

\* the store after an earlier creation: one pin, and the clock past it
InitCounts ==
    /\ db = [InitDb EXCEPT !.now = 1]
    /\ reqs = [r \in Slots |-> IdleReq]
    /\ started = 0
    /\ turn = "r1"
    /\ view = NoView
    /\ cloud = {}
    /\ ui = NoUi

ValidTokens == {t \in Tokens : t.valid}

NextCounts ==
    \/ \E r \in Slots, kind \in {"like", "save"}, token \in ValidTokens :
          Auth(r, kind, token, "p1")
    \/ \E r \in Slots : CheckObj(r)
    \/ \E r \in Slots : CheckRow(r)
    \/ \E r \in Slots : ToggleWrite(r)
    \/ \E r \in Slots, token \in ValidTokens :
          CreatePin(r, token, [NoBody EXCEPT !.title = Str(<<"b">>)], "image")
    \/ \E r \in Slots : Upload(r)
    \/ \E r \in Slots : CreateInsert(r)
    \/ GetPins(NoQuery)
    \/ \E id \in {"u1", "u2"} : GetUserPins(id, NoQuery)
    \/ \E token \in ValidTokens : GetSaved(token, token.uid, NoQuery)
    \/ \E id \in {"p1", "p2", "p9"} : GetPin(id)

SpecCounts == InitCounts /\ [][NextCounts]_vars

(***************************************************************************)
(* A double click: toggles of one user on one object, started from a store *)
(* in which the user already likes the pin.                                *)
(***************************************************************************)
\* the store after u2 liked p1
RaceDb == InsertPinUser(InitDb, "pin_likes", "p1", "u2").db

\* the user of the double click and the object of each kind of toggle
RaceToken == [uid |-> "u2", valid |-> TRUE]
RaceObj(kind) == IF kind = "follow" THEN "u1" ELSE "p1"

InitRace ==
    /\ db = RaceDb
    /\ reqs = [r \in Slots |-> IdleReq]
    /\ started = 0
    /\ turn = "r1"
    /\ view = NoView
    /\ cloud = {}
    /\ ui = NoUi

NextRace ==
    \/ \E r \in Slots, kind \in ToggleKinds : Auth(r, kind, RaceToken, RaceObj(kind))
    \/ \E r \in Slots : CheckObj(r)
    \/ \E r \in Slots : CheckRow(r)
    \/ \E r \in Slots : ToggleWrite(r)

SpecRace == InitRace /\ [][NextRace]_vars

(***************************************************************************)
(* HomePage: the list of pins the browser composes from the pages of GET   *)
(* /api/pins.  A call of fetchPins is a request that the server answers    *)
(* in one step from the store of that moment and whose response the page   *)
(* receives in a later step; responses arrive in any order.  Other         *)
(* clients create pins in between.                                         *)
(***************************************************************************)
MaxFetches == 3

\* ORDER BY created_at DESC, built row by row: the orderings of OrderedDesc
RECURSIVE NewestFirst(_)
NewestFirst(S) ==
    IF S = {} THEN {<<>>}
    ELSE UNION {{<<m>> \o t : t \in NewestFirst(S \ {m})} :
                    m \in {p \in S : \A o \in S : o.created_at <= p.created_at}}

\* the searches the navigation bar puts in the address
HomeSearches == {<<>>, <<"a">>, <<"b">>}

\* params: page, limit and, when not empty, search
HomeQuery(pageNum, search) ==
    [page |-> IntParam(pageNum), limit |-> IntParam(HomeLimit), search |-> search,
     category |-> ""]

\* fetchPins(pageNum, reset) up to axios.get: the request carries the
\* searchQuery of the render that made the call
FetchPins(u, pageNum, reset) ==
    [u EXCEPT !.issued = @ + 1,
              !.fetches = @ \cup {[n |-> u.issued + 1, page |-> pageNum, reset |-> reset,
                                   search |-> u.query, pc |-> "sent", resp |-> NoView]}]

\* the effect on [searchQuery]: setLoading(true), setPins([]), setPage(1),
\* fetchPins(1, true); the spinner replaces the list and its cards
SearchEffect(u, q) ==
    FetchPins([u EXCEPT !.query = q, !.loading = TRUE, !.pins = <<>>, !.page = 1,
                        !.actionTriggered = FALSE, !.card = NoCard], 1, TRUE)

\* the page is shown, or its address changes to another search
Show(q) ==
    /\ ~ui.mounted \/ q # ui.query
    /\ ui.issued < MaxFetches
    /\ ui' = SearchEffect([ui EXCEPT !.mounted = TRUE], q)
    /\ UNCHANGED <<db, reqs, started, turn, view, cloud>>

\* InfiniteScroll calls next at the end of the list, once until the list
\* changes length; loadMore fetches the next page unless loading or ~hasMore
LoadMore ==
    /\ ui.mounted
    /\ ~(ui.loading /\ Len(ui.pins) = 0)
    /\ ui.hasMore
    /\ ~ui.actionTriggered
    /\ ui.issued < MaxFetches
    /\ LET u == [ui EXCEPT !.actionTriggered = TRUE] IN
       ui' = IF ~ui.loading /\ ui.hasMore THEN FetchPins(u, ui.page + 1, FALSE) ELSE u
    /\ UNCHANGED <<db, reqs, started, turn, view, cloud>>

\* GET /api/pins answers a call of fetchPins
ServePins(f) ==
    /\ f \in ui.fetches
    /\ f.pc = "sent"
    /\ \E rows \in NewestFirst(FilteredPins(db, HomeQuery(f.page, f.search))) :
           ui' = [ui EXCEPT !.fetches = (@ \ {f}) \cup
                     {[f EXCEPT !.pc = "answered",
                                !.resp = FeedResponse("pins", "-", HomeQuery(f.page, f.search),
                                                      db, rows)]}]
    /\ UNCHANGED <<db, reqs, started, turn, view, cloud>>

\* GET /api/pins fails: the store reports an error
ServePinsError(f) ==
    /\ f \in ui.fetches
    /\ f.pc = "sent"
    /\ ui' = [ui EXCEPT !.fetches = (@ \ {f}) \cup
                 {[f EXCEPT !.pc = "answered", !.resp = [NoView EXCEPT !.status = 500]]}]
    /\ UNCHANGED <<db, reqs, started, turn, view, cloud>>

\* the catch and finally branches of fetchPins
FetchFailed(u) ==
    [u EXCEPT !.toast = "Failed to load pins", !.loading = FALSE]

\* the try and finally branches of fetchPins after axios.get
FetchSucceeded(u, f) ==
    LET newPins == f.resp.pins
        list == IF f.reset THEN newPins ELSE u.pins \o newPins
    IN  [u EXCEPT !.pins = list, !.hasMore = f.resp.hasMore, !.page = f.page,
                  !.loading = FALSE,
                  !.empties = IF ~f.reset /\ Len(newPins) = 0 THEN @ + 1 ELSE @,
                  !.actionTriggered = IF Len(list) # Len(u.pins) THEN FALSE ELSE @]

\* the response of a call of fetchPins arrives
ReceivePins(f) ==
    /\ f \in ui.fetches
    /\ f.pc = "answered"
    /\ LET u == [ui EXCEPT !.fetches = @ \ {f}] IN
       ui' = IF f.resp.status = 200 THEN FetchSucceeded(u, f) ELSE FetchFailed(u)
    /\ UNCHANGED <<db, reqs, started, turn, view, cloud>>

\* another client creates a pin: POST /api/pins with a title and an image
PinCreated(title) ==
    /\ Cardinality(cloud) < MaxCreates
    /\ LET file == [part |-> "image", path |-> NextUrl(cloud)]
           row == NewPinRow(db, [NoBody EXCEPT !.title = Str(title)], file, "u2")
           ins == InsertPin(db, row)
       IN  /\ ins.err = "-"
           /\ db' = ins.db
           /\ cloud' = cloud \cup {file.path}
    /\ UNCHANGED <<reqs, started, turn, view, ui>>

\* the store that holds the n pins earlier sessions created, one at a time
HomeDb(n) ==
    [InitDb EXCEPT
        !.pins = {PinRow(PinUuids[i], "u1", IF i % 2 = 1 THEN <<"a">> ELSE <<"b">>,
                         <<>>, "general", i - 1) : i \in 1..n},
        !.now = n]

HomeSizes == {1, HomeLimit}

InitHome ==
    /\ db \in {HomeDb(n) : n \in HomeSizes}
    /\ reqs = [r \in Slots |-> IdleReq]
    /\ started = 0
    /\ turn = "r1"
    /\ view = NoView
    /\ cloud = {}
    /\ ui = NoUi

NextHome ==
    \/ \E q \in HomeSearches : Show(q)
    \/ LoadMore
    \/ \E f \in ui.fetches : ServePins(f)
    \/ \E f \in ui.fetches : ServePinsError(f)
    \/ \E f \in ui.fetches : ReceivePins(f)
    \/ \E title \in {<<"a">>, <<"b">>} : PinCreated(title)

SpecHome == InitHome /\ [][NextHome]_vars

(***************************************************************************)
(* HomePage over a store that does not change: the page is shown once,     *)
(* with no search, the user scrolls whenever the list allows, and every    *)
(* request is answered.                                                    *)
(***************************************************************************)
InitScroll ==
    /\ db \in {HomeDb(n) : n \in 0..MaxPins}
    /\ reqs = [r \in Slots |-> IdleReq]
    /\ started = 0
    /\ turn = "r1"
    /\ view = NoView
    /\ cloud = {}
    /\ ui = NoUi

NextScroll ==
    \/ ~ui.mounted /\ Show(<<>>)
    \/ LoadMore
    \/ \E f \in ui.fetches : ServePins(f)
    \/ \E f \in ui.fetches : ReceivePins(f)

SpecScroll == InitScroll /\ [][NextScroll]_vars

\* the browser and the server keep running: a step that stays possible is taken
SpecScrollFair == SpecScroll /\ WF_vars(NextScroll)

(***************************************************************************)
(* The like, save and follow buttons of PinCard (in the list of HomePage), *)
(* PinDetailsPage and ProfilePage, used by one browser whose user is u2,   *)
(* on pin p1 and on the profile of u1.  One page is shown at a time; a     *)
(* click sends a toggle request to the server, whose steps interleave with *)
(* those of the other requests, and the handler goes on when the response  *)
(* arrives.  The page is left only when no response is awaited.            *)
(***************************************************************************)
\* the state a control keeps: its flag and its count
FlagOf(kind) ==
    IF kind = "like" THEN "isLiked" ELSE IF kind = "save" THEN "isSaved" ELSE "isFollowing"
CountOf(kind) ==
    IF kind = "like" THEN "likesCount"
    ELSE IF kind = "save" THEN "savesCount" ELSE "followersCount"

\* the controls of each component
Controls ==
    {<<"card", "like">>, <<"card", "save">>, <<"details", "like">>,
     <<"details", "save">>, <<"profile", "follow">>}

\* the object of a control: the pin of the card and of the details page, the
\* user of the profile page
ObjOf(kind) == IF kind = "follow" THEN "u1" ELSE "p1"

\* no page is shown
NoPage == ~ui.mounted /\ ~ui.details.mounted /\ ~ui.profile.mounted

\* the component shows its buttons
Rendered(w) ==
    IF w = "card" THEN ui.card.mounted ELSE ui[w].mounted /\ ui[w].loaded

\* MasonryGrid renders the PinCard of a pin of the list: useState(false),
\* useState(pin.likes_count), useState(pin.saves_count)
MountCard ==
    /\ ui.mounted
    /\ ~ui.card.mounted
    /\ \E i \in 1..Len(ui.pins) :
          /\ ui.pins[i].id = ObjOf("like")
          /\ \A j \in 1..(i - 1) : ui.pins[j].id # ObjOf("like")
          /\ ui' = [ui EXCEPT !.card = [mounted |-> TRUE, isLiked |-> FALSE,
                                        isSaved |-> FALSE,
                                        likesCount |-> ui.pins[i].likes_count,
                                        savesCount |-> ui.pins[i].saves_count]]
    /\ UNCHANGED <<db, reqs, started, turn, view, cloud>>

\* PinDetailsPage is shown: the spinner, until fetchPin is answered
OpenDetails ==
    /\ ui' = [ui EXCEPT !.details = [NoDetails EXCEPT !.mounted = TRUE]]
    /\ UNCHANGED <<db, reqs, started, turn, view, cloud>>

\* fetchPin: GET /api/pins/:id is answered from the store and the page takes
\* the counts of the response (no request changes the store while the page
\* waits, so the answer and its arrival are one step)
DetailsLoaded ==
    /\ ui.details.mounted
    /\ ~ui.details.loaded
    /\ \E p \in db.pins :
          /\ p.id = ObjOf("like")
          /\ ui' = [ui EXCEPT !.details.loaded = TRUE,
                              !.details.likesCount = WithCounts(db, p).likes_count,
                              !.details.savesCount = WithCounts(db, p).saves_count]
    /\ UNCHANGED <<db, reqs, started, turn, view, cloud>>

\* fetchPin fails: the notification, and navigate('/') shows HomePage
DetailsFailed ==
    /\ ui.details.mounted
    /\ ~ui.details.loaded
    /\ ui.issued < MaxFetches
    /\ ui' = SearchEffect([ui EXCEPT !.details = NoDetails, !.toast = "Pin not found",
                                     !.mounted = TRUE], <<>>)
    /\ UNCHANGED <<db, reqs, started, turn, view, cloud>>

\* ProfilePage of another user is shown: the spinner
OpenProfile ==
    /\ ui' = [ui EXCEPT !.profile = [NoProfile EXCEPT !.mounted = TRUE]]
    /\ UNCHANGED <<db, reqs, started, turn, view, cloud>>

\* fetchUserProfile: GET /api/users/:id is answered from the store and the
\* page takes followers_count
ProfileLoaded ==
    /\ ui.profile.mounted
    /\ ~ui.profile.loaded
    /\ ObjOf("follow") \in UserIds(db)
    /\ ui' = [ui EXCEPT !.profile.loaded = TRUE,
                        !.profile.followersCount = FollowersCount(db, ObjOf("follow"))]
    /\ UNCHANGED <<db, reqs, started, turn, view, cloud>>

\* the notification of a click without a logged-in user
LoginToast(kind) ==
    IF kind = "like" THEN "Please log in to like pins"
    ELSE IF kind = "save" THEN "Please log in to save pins"
    ELSE "Please log in to follow users"

\* handleLike / handleSave / handleFollow without a user: no request
ClickLoggedOut(w, kind) ==
    /\ <<w, kind>> \in Controls
    /\ Rendered(w)
    /\ ui.user = NoToken
    /\ ui' = [ui EXCEPT !.toast = LoginToast(kind)]
    /\ UNCHANGED <<db, reqs, started, turn, view, cloud>>

\* handleLike / handleSave / handleFollow up to axios.post: the request
\* arrives at the server; the handler keeps the count of the render that
\* made the call
Click(r, w, kind) ==
    /\ <<w, kind>> \in Controls
    /\ Rendered(w)
    /\ ui.user # NoToken
    /\ ui.pending[r] = NoClick
    /\ Arrival(r, kind, ui.user, ObjOf(kind))
    /\ ui' = [ui EXCEPT !.pending[r] =
                 [widget |-> w, kind |-> kind, count |-> ui[w][CountOf(kind)]]]
    /\ UNCHANGED <<view, cloud>>

\* handlePinUpdate: the pins of the list with the id take the updates
PinUpdate(pins, pinId, field, value) ==
    [i \in 1..Len(pins) |->
        IF pins[i].id = pinId THEN [pins[i] EXCEPT ![field] = value] ELSE pins[i]]

\* the notification of a successful toggle
DoneToast(u, kind, newState) ==
    IF kind = "like" THEN u.toast
    ELSE IF kind = "save" THEN (IF newState THEN "Pin saved!" ELSE "Pin unsaved")
    ELSE (IF newState THEN "Following user!" ELSE "Unfollowed user")

\* the try branch after axios.post: the flag becomes the answer, the count
\* moves by one from its current value, and PinCard gives its parent the
\* count of the render that made the call, moved by one
Toggled(u, c, newState) ==
    [u EXCEPT ![c.widget] = [@ EXCEPT
                     ![FlagOf(c.kind)] = newState,
                     ![CountOf(c.kind)] = IF newState THEN @ + 1 ELSE @ - 1],
              !.toast = DoneToast(u, c.kind, newState),
              !.pins = IF c.widget = "card"
                       THEN PinUpdate(@, ObjOf(c.kind),
                                      IF c.kind = "like" THEN "likes_count"
                                      ELSE "saves_count",
                                      IF newState THEN c.count + 1 ELSE c.count - 1)
                       ELSE @]

\* the notification of a failed toggle
FailToast(kind) ==
    IF kind = "like" THEN "Failed to like pin"
    ELSE IF kind = "save" THEN "Failed to save pin" ELSE "Failed to follow user"

\* variant: the catch branch also flips the flag
ToggleFailedFlips(u, c) ==
    [u EXCEPT !.toast = FailToast(c.kind),
              ![c.widget] = [@ EXCEPT ![FlagOf(c.kind)] = ~@]]
\* the catch branch
ToggleFailed(u, c) == [u EXCEPT !.toast = FailToast(c.kind)]

\* the response of a toggle arrives: axios.post resolves on 200 and rejects
\* on any other status
Answer(r) ==
    /\ ui.pending[r] # NoClick
    /\ reqs[r].pc = "done"
    /\ LET u == [ui EXCEPT !.pending[r] = NoClick] IN
       ui' = IF reqs[r].status = 200
             THEN Toggled(u, ui.pending[r], reqs[r].active)
             ELSE ToggleFailed(u, ui.pending[r])
    /\ UNCHANGED <<db, reqs, started, turn, view, cloud>>

\* the user leaves the page: its state and the notification are gone
Leave ==
    /\ ~NoPage
    /\ ui.fetches = {}
    /\ \A r \in Slots : ui.pending[r] = NoClick
    /\ ui' = [NoUi EXCEPT !.user = ui.user, !.issued = ui.issued]
    /\ UNCHANGED <<db, reqs, started, turn, view, cloud>>

\* the store after an earlier session of u2: those of its like and save of
\* p1 and its follow of u1 that S names
WidgetDb(S) ==
    LET d1 == IF "like" \in S THEN InsertPinUser(InitDb, "pin_likes", "p1", "u2").db
              ELSE InitDb
        d2 == IF "save" \in S THEN InsertPinUser(d1, "pin_saves", "p1", "u2").db ELSE d1
    IN  IF "follow" \in S THEN InsertFollow(d2, "u2", "u1").db ELSE d2

\* the user of the browser: nobody, u2, or u2 with a token that has expired
WidgetUsers == {NoToken, [uid |-> "u2", valid |-> TRUE], [uid |-> "u2", valid |-> FALSE]}

\* the store of one pin, without and with the rows of u2, for each user of
\* the browser, and a store that fills a page of HomePage, for u2
InitWidgets ==
    /\ db \in {WidgetDb({}), WidgetDb(ToggleKinds), HomeDb(HomeLimit)}
    /\ reqs = [r \in Slots |-> IdleReq]
    /\ started = 0
    /\ turn = "r1"
    /\ view = NoView
    /\ cloud = {}
    /\ ui \in {[NoUi EXCEPT !.user = t] : t \in WidgetUsers}
    /\ db = HomeDb(HomeLimit) => ui.user = [uid |-> "u2", valid |-> TRUE]

NextWidgets ==
    \/ NoPage /\ Show(<<>>)
    \/ LoadMore
    \/ \E f \in ui.fetches : ServePins(f)
    \/ \E f \in ui.fetches : ServePinsError(f)
    \/ \E f \in ui.fetches : ReceivePins(f)
    \/ MountCard
    \/ NoPage /\ OpenDetails
    \/ DetailsLoaded
    \/ DetailsFailed
    \/ NoPage /\ OpenProfile
    \/ ProfileLoaded
    \/ \E c \in Controls : ClickLoggedOut(c[1], c[2])
    \/ \E r \in Slots, c \in Controls : Click(r, c[1], c[2])
    \/ \E r \in Slots : CheckObj(r)
    \/ \E r \in Slots : CheckRow(r)
    \/ \E r \in Slots : ToggleWrite(r)
    \/ \E r \in Slots : Answer(r)
    \/ Leave

SpecWidgets == InitWidgets /\ [][NextWidgets]_vars

(***************************************************************************)
(* Properties of the toggle endpoints and of the store.                    *)
(***************************************************************************)
\* the (actor, object) pairs of a relationship table
RelPairs(d, kind) ==
    IF kind = "follow"
    THEN {<<r.follower_id, r.following_id>> : r \in BagToSet(d.user_follows)}
    ELSE {<<r.user_id, r.pin_id>> : r \in BagToSet(d[TableOf(kind)])}

HasRel(d, kind, actor, obj) == <<actor, obj>> \in RelPairs(d, kind)

ObjExists(d, kind, obj) ==
    IF kind = "follow" THEN obj \in UserIds(d) ELSE obj \in PinIds(d)

\* a finished toggle request that no other operation overlapped
AloneToggle(rq) == rq.pc = "done" /\ rq.alone /\ rq.kind \in ToggleKinds

\* a toggle by an authenticated actor on an existing object (not the actor)
ValidToggle(rq) ==
    /\ AloneToggle(rq)
    /\ rq.user # "-"
    /\ ObjExists(rq.before, rq.kind, rq.obj)
    /\ ~(rq.kind = "follow" /\ rq.obj = rq.user)

\* C1: a toggle executed alone by an authenticated actor on an existing object
\* deletes the (actor, object) row and answers active = false when the row
\* existed before the call, and otherwise inserts it and answers active = true.
C1_ToggleFlips ==
    \A r \in Slots :
        LET rq == reqs[r] IN
        ValidToggle(rq) =>
            /\ rq.status = 200
            /\ rq.active = ~HasRel(rq.before, rq.kind, rq.user, rq.obj)
            /\ HasRel(rq.after, rq.kind, rq.user, rq.obj) = rq.active

\* u2 likes the fresh pin p1 (liked: true), then likes it again (liked: false)
C1_Witness ==
    \E r1, r2 \in Slots :
        /\ ValidToggle(reqs[r1]) /\ ValidToggle(reqs[r2])
        /\ reqs[r1].kind = "like" /\ reqs[r2].kind = "like"
        /\ reqs[r1].user = "u2" /\ reqs[r2].user = "u2"
        /\ reqs[r1].obj = "p1" /\ reqs[r2].obj = "p1"
        /\ reqs[r1].before = InitDb /\ reqs[r1].active
        /\ reqs[r2].before = reqs[r1].after /\ ~reqs[r2].active

\* two toggles of one (kind, actor, object), the second arriving at the store
\* the first left, both answered with success
TogglePair(r1, r2) ==
    /\ r1 # r2
    /\ ValidToggle(reqs[r1]) /\ ValidToggle(reqs[r2])
    /\ reqs[r1].kind = reqs[r2].kind
    /\ reqs[r1].user = reqs[r2].user
    /\ reqs[r1].obj = reqs[r2].obj
    /\ reqs[r2].before = reqs[r1].after
    /\ reqs[r1].status = 200 /\ reqs[r2].status = 200

\* C2: two toggles of the same actor on the same object, one after the other,
\* leave the (actor, object) pairs of all three relationship tables as they
\* were before the first, and their responses carry opposite active flags.
C2_ToggleTwiceRestores ==
    \A r1, r2 \in Slots :
        TogglePair(r1, r2) =>
            /\ \A k \in ToggleKinds :
                   RelPairs(reqs[r2].after, k) = RelPairs(reqs[r1].before, k)
            /\ reqs[r1].active # reqs[r2].active

\* a pair of follow toggles that starts from an existing follow edge
C2_Witness ==
    \E r1, r2 \in Slots :
        /\ TogglePair(r1, r2)
        /\ reqs[r1].kind = "follow"
        /\ HasRel(reqs[r1].before, "follow", reqs[r1].user, reqs[r1].obj)

\* C3: in every reachable state each relationship table holds at most one row
\* per (actor, object) pair, whatever the interleaving of the toggle steps.
C3_UniqueRows ==
    /\ \A k \in {"like", "save"} : \A u \in UserIdSpace, p \in PinIdSpace :
           CountIn(db[TableOf(k)], PinUserRows(db[TableOf(k)], p, u)) <= 1
    /\ \A a, b \in UserIdSpace :
           CountIn(db.user_follows, FollowRows(db.user_follows, a, b)) <= 1

\* a request read "no row", and its insert met the row of a concurrent request
C3_Witness ==
    \E r \in Slots : reqs[r].pc = "done" /\ reqs[r].err = "unique"

\* C4: a toggle whose insert the uniqueness constraint rejects does not
\* answer 500.
C4_DuplicateInsertNotA500 ==
    \A r \in Slots :
        (reqs[r].pc = "done" /\ reqs[r].err = "unique") => reqs[r].status # 500

\* C5 as stated: a follow of oneself answers 400 whatever the token.
C5_SelfFollowAlways400 ==
    \A r \in Slots :
        LET rq == reqs[r] IN
        (rq.pc = "done" /\ rq.kind = "follow" /\ rq.obj = rq.token.uid)
            => rq.status = 400

\* C5 amended: a follow of oneself answers 400 when the token authenticates
\* and 401 when it does not, and user_follows never holds a row (u, u).
C5_SelfFollowRejected ==
    /\ \A r \in Slots :
           LET rq == reqs[r] IN
           (rq.pc = "done" /\ rq.kind = "follow" /\ rq.obj = rq.token.uid)
               => rq.status = (IF rq.user # "-" THEN 400 ELSE 401)
    /\ \A u \in UserIdSpace : ~HasRel(db, "follow", u, u)

C5_Witness ==
    \E r \in Slots :
        /\ reqs[r].pc = "done" /\ reqs[r].kind = "follow"
        /\ reqs[r].obj = reqs[r].token.uid /\ reqs[r].user = reqs[r].obj
        /\ reqs[r].status = 400

\* C6: a toggle by an authenticated actor on an id that references no pin
\* (like, save) or no user (follow) answers 404 and leaves the store as it was.
C6_MissingObject404 ==
    \A r \in Slots :
        LET rq == reqs[r] IN
        (AloneToggle(rq) /\ rq.user # "-" /\ ~ObjExists(rq.before, rq.kind, rq.obj))
            => rq.status = 404 /\ rq.after = rq.before

\* a save of a pin its owner has deleted, and a follow of an unknown user
C6_Witness ==
    \E r1, r2 \in Slots :
        /\ AloneToggle(reqs[r1]) /\ reqs[r1].kind = "save" /\ reqs[r1].obj = "p1"
        /\ reqs[r1].status = 404 /\ reqs[r1].before.pins = {}
        /\ AloneToggle(reqs[r2]) /\ reqs[r2].kind = "follow" /\ reqs[r2].obj = "u9"
        /\ reqs[r2].status = 404

\* C9: every pin's owner is a stored user, every like and save row references
\* a stored pin and a stored user, every follow row two stored users; so the
\* pins, likes, saves and follow edges of a deleted user are empty.
C9_ReferentialIntegrity ==
    /\ \A p \in db.pins : p.user_id \in UserIds(db)
    /\ \A k \in {"like", "save"} : \A r \in BagToSet(db[TableOf(k)]) :
           r.pin_id \in PinIds(db) /\ r.user_id \in UserIds(db)
    /\ \A r \in BagToSet(db.user_follows) :
           r.follower_id \in UserIds(db) /\ r.following_id \in UserIds(db)
    /\ \A u \in UserIdSpace \ UserIds(db) :
           /\ {p \in db.pins : p.user_id = u} = {}
           /\ \A k \in ToggleKinds : \A x \in UserIdSpace \cup PinIdSpace :
                  ~HasRel(db, k, u, x) /\ ~HasRel(db, k, x, u)

\* u1 is deleted after u2 liked u1's pin and followed u1
C9_Witness ==
    /\ "u1" \notin UserIds(db)
    /\ \E r1, r2 \in Slots :
           /\ reqs[r1].pc = "done" /\ reqs[r1].kind = "like" /\ reqs[r1].user = "u2"
           /\ reqs[r1].status = 200 /\ reqs[r1].active
           /\ reqs[r2].pc = "done" /\ reqs[r2].kind = "follow" /\ reqs[r2].user = "u2"
           /\ reqs[r2].obj = "u1" /\ reqs[r2].status = 200 /\ reqs[r2].active

(***************************************************************************)
(* Properties of the feeds.                                                *)
(***************************************************************************)
\* a sequence of instants in descending order
Desc(times) ==
    \A i, j \in 1..Len(times) : i < j => times[i] >= times[j]

\* the creation times of the pins of a page
CreatedAts(pins) == [i \in 1..Len(pins) |-> pins[i].created_at]

\* the instant user id saved the pin
SavedAt(d, id, pinId) ==
    (CHOOSE r \in BagToSet(d.pin_saves) : r.user_id = id /\ r.pin_id = pinId).created_at

\* a served page holds at most limit pins and hasMore says it holds exactly limit
PageShape ==
    /\ Len(view.pins) <= view.limit
    /\ view.hasMore = (Len(view.pins) = view.limit)

\* C7 as stated: every served page of the three feeds holds at most limit
\* pins in descending order of pin creation time, and hasMore is true iff it
\* holds exactly limit pins.
C7_PagesByCreation ==
    view.status = 200 => PageShape /\ Desc(CreatedAts(view.pins))

\* C7 amended: as stated for GET /pins and GET /users/:id/pins; the page of
\* GET /users/:id/saved is in descending order of the time of the save.
C7_Pages ==
    view.status = 200 =>
        /\ PageShape
        /\ view.endpoint \in {"pins", "userPins"} => Desc(CreatedAts(view.pins))
        /\ view.endpoint = "saved" =>
               Desc([i \in 1..Len(view.pins) |-> SavedAt(db, view.id, view.pins[i].id)])

\* a full page of saved pins, the older pin saved last and so served first
C7_Witness ==
    /\ view.endpoint = "saved" /\ view.status = 200
    /\ view.limit = 2 /\ Len(view.pins) = 2 /\ view.hasMore
    /\ view.pins[1].created_at < view.pins[2].created_at

\* needle occurs in text, without regard to case
ContainsCI(text, needle) ==
    \E k \in 0..Len(text) :
        /\ k + Len(needle) <= Len(text)
        /\ \A i \in 1..Len(needle) : Lower(text[k + i]) = Lower(needle[i])

\* C8: a pin is in the filtered feed iff (search is empty or a
\* case-insensitive substring of its title or description) and (category is
\* empty or equals the pin's category).  Read off a first page that has room
\* for every stored pin.
C8_SearchIsSubstring ==
    (view.endpoint = "pins" /\ view.status = 200 /\ view.page = 1
         /\ view.limit >= Cardinality(db.pins)) =>
        \A p \in db.pins :
            (\E i \in 1..Len(view.pins) : view.pins[i].id = p.id)
            <=> /\ \/ view.q.search = <<>>
                   \/ ContainsCI(p.title, view.q.search)
                   \/ ContainsCI(p.description, view.q.search)
                /\ (view.q.category = "" \/ view.q.category = p.category)

(***************************************************************************)
(* Properties of the accounts.                                             *)
(***************************************************************************)
\* slot r1 holds a successful signup and slot r2 a later login with the
\* signup's email and a password
LoginAfterSignup(r1, r2) ==
    /\ reqs[r1].pc = "done" /\ reqs[r1].kind = "signup" /\ reqs[r1].status = 201
    /\ reqs[r1].issued.valid
    /\ reqs[r2].pc = "done" /\ reqs[r2].kind = "login"
    /\ reqs[r2].input.email = reqs[r1].input.email
    /\ reqs[r2].input.password # ""
    /\ reqs[r1].ret.id \in UserIds(reqs[r2].before)

\* C10: after a successful signup, a login with its email and password
\* answers 200 with the user id the signup returned, and a login with its
\* email and another password answers 401 "Invalid credentials".
C10_LoginAfterSignup ==
    \A r1, r2 \in Slots :
        LoginAfterSignup(r1, r2) =>
            IF reqs[r2].input.password = reqs[r1].input.password
            THEN reqs[r2].status = 200 /\ reqs[r2].ret.id = reqs[r1].ret.id
            ELSE reqs[r2].status = 401 /\ reqs[r2].msg = "Invalid credentials"

\* a signup, then a login with the same email and password
C10_Witness ==
    \E r1, r2 \in Slots :
        /\ LoginAfterSignup(r1, r2)
        /\ reqs[r2].input.password = reqs[r1].input.password
        /\ reqs[r2].status = 200

\* a finished signup with every field given that no other operation overlapped
AloneSignup(rq) ==
    /\ rq.pc = "done" /\ rq.kind = "signup" /\ rq.alone
    /\ rq.input.email # "" /\ rq.input.password # "" /\ rq.input.firstName # ""

\* the email or the username of the signup belongs to a stored user
InUse(d, in) == \E u \in d.users : u.email = in.email \/ u.username = in.username

\* the answer of the handler's existing-user check
ConflictResponse(rq) ==
    rq.status = 400 /\ rq.msg \in {"Email already exists", "Username already exists"}

\* C11: a signup whose email or username is already in use by a stored user
\* is answered with the conflict response of the existing-user check and
\* creates no user row, in every store state.
C11_DuplicateSignupConflict ==
    \A r \in Slots :
        LET rq == reqs[r] IN
        (AloneSignup(rq) /\ InUse(rq.before, rq.input))
            => ConflictResponse(rq) /\ rq.after = rq.before

\* C12: in every reachable state, under any interleaving of the check and
\* insert steps of concurrent signups, no two user rows share an email and no
\* two user rows share a username.
C12_UniqueUsers ==
    \A u1, u2 \in db.users :
        (u1.email = u2.email \/ u1.username = u2.username) => u1 = u2

\* two concurrent signups passed the existing-user check and the insert of
\* the second met the row of the first
C12_Witness ==
    \E r1, r2 \in Slots :
        /\ reqs[r1].pc = "done" /\ reqs[r1].kind = "signup" /\ reqs[r1].status = 201
        /\ reqs[r2].pc = "done" /\ reqs[r2].kind = "signup" /\ reqs[r2].err = "unique"
        /\ ~reqs[r2].alone
        /\ \/ reqs[r1].input.email = reqs[r2].input.email
           \/ reqs[r1].input.username = reqs[r2].input.username

\* a finished login with a non-empty email and password
FullLogin(rq) ==
    /\ rq.pc = "done" /\ rq.kind = "login"
    /\ rq.input.email # "" /\ rq.input.password # ""

\* the login names an email no stored user has
EmailUnknown(rq) == \A u \in rq.before.users : u.email # rq.input.email

\* the login names a stored email with a password that is not the user's
PasswordWrong(rq) ==
    \E u \in rq.before.users :
        /\ u.email = rq.input.email
        /\ u.password_hash[3] # rq.input.password

\* the status and the body of a response
ResponseOf(rq) ==
    [status |-> rq.status, msg |-> rq.msg, active |-> rq.active,
     token |-> rq.issued, user |-> rq.ret]

\* C13: a login with an email no user has and a login with a stored email and
\* a wrong password (both with non-empty email and password) get the same
\* status, 401, and the same body.
C13_LoginIndistinguishable ==
    \A r1, r2 \in Slots :
        (FullLogin(reqs[r1]) /\ EmailUnknown(reqs[r1])
             /\ FullLogin(reqs[r2]) /\ PasswordWrong(reqs[r2]))
            => /\ reqs[r1].status = 401
               /\ ResponseOf(reqs[r1]) = ResponseOf(reqs[r2])

\* after one signup: a login with another email and a login with the
\* signup's email and another password
C13_Witness ==
    \E r1, r2 \in Slots :
        /\ FullLogin(reqs[r1]) /\ EmailUnknown(reqs[r1])
        /\ FullLogin(reqs[r2]) /\ PasswordWrong(reqs[r2])
        /\ reqs[r1].before.users # {}

\* C14: no response of signup, login or GET /auth/me carries a password
\* hash: the user record of the response has no password_hash field.
C14_NoPasswordHash ==
    \A r \in Slots :
        LET rq == reqs[r] IN
        (rq.pc = "done" /\ rq.kind \in {"signup", "login", "me"}) =>
            "password_hash" \notin DOMAIN rq.ret

\* a successful login and a successful GET /auth/me of a signed-up user
C14_Witness ==
    \E r1, r2 \in Slots :
        /\ reqs[r1].pc = "done" /\ reqs[r1].kind = "login" /\ reqs[r1].status = 200
        /\ reqs[r2].pc = "done" /\ reqs[r2].kind = "me" /\ reqs[r2].status = 200
        /\ reqs[r2].ret.id = reqs[r1].ret.id
        /\ \E u \in db.users : u.id = reqs[r2].ret.id /\ u.password_hash[1] = "bcrypt"

(***************************************************************************)
(* Properties of pin deletion and the frame of the toggles.                *)
(***************************************************************************)
\* a finished delete-pin request of an authenticated caller that no other
\* operation overlapped
AloneDelete(rq) == rq.pc = "done" /\ rq.kind = "delete" /\ rq.alone /\ rq.user # "-"

\* the owner of the pin in store d
OwnerOf(d, pinId) == (CHOOSE p \in d.pins : p.id = pinId).user_id

\* C17: a delete-pin request removes the pin only when the caller owns it:
\* for another caller the answer is 403, for an id that names no pin it is
\* 404, and in both cases the store (the pin, its like and save rows and all
\* the rest) is left as it was.
C17_DeleteOnlyByOwner ==
    \A r \in Slots :
        LET rq == reqs[r] IN
        AloneDelete(rq) =>
            IF rq.obj \notin PinIds(rq.before)
            THEN rq.status = 404 /\ rq.after = rq.before
            ELSE IF OwnerOf(rq.before, rq.obj) # rq.user
            THEN rq.status = 403 /\ rq.after = rq.before
            ELSE rq.status = 200 /\ rq.obj \notin PinIds(rq.after)

\* u2 saves u1's pin and then asks to delete it
C17_Witness ==
    \E r \in Slots :
        /\ AloneDelete(reqs[r]) /\ reqs[r].user = "u2" /\ reqs[r].obj = "p1"
        /\ reqs[r].status = 403
        /\ HasRel(reqs[r].before, "save", "u2", "p1")
        /\ HasRel(db, "save", "u2", "p1") /\ "p1" \in PinIds(db)

\* store d without the (actor, object) rows of the table of a toggle kind
ExceptPair(d, kind, actor, obj) ==
    IF kind = "follow"
    THEN [d EXCEPT !.user_follows =
              Without(@, {x \in DOMAIN @ : x.follower_id = actor /\ x.following_id = obj})]
    ELSE [d EXCEPT ![TableOf(kind)] =
              Without(@, {x \in DOMAIN @ : x.user_id = actor /\ x.pin_id = obj})]

\* C20: every step of a toggle request of actor a on object o, in every
\* interleaving, leaves the store as it was except for the (a, o) rows of
\* the toggle's table: the users, the pins, the other two relationship
\* tables and every other row of the same table are unchanged.
C20_ToggleFrame ==
    [][\A r \in Slots :
          (reqs'[r].pc # reqs[r].pc /\ reqs'[r].kind \in ToggleKinds) =>
              ExceptPair(db', reqs'[r].kind, reqs'[r].user, reqs'[r].obj)
                  = ExceptPair(db, reqs'[r].kind, reqs'[r].user, reqs'[r].obj)]_vars

\* u2 removes its like of p1 while u1's like of p1 stays
C20_Witness ==
    \E r \in Slots :
        /\ reqs[r].pc = "done" /\ reqs[r].kind = "like" /\ reqs[r].user = "u2"
        /\ reqs[r].obj = "p1" /\ reqs[r].status = 200 /\ ~reqs[r].active
        /\ RelPairs(db, "like") = {<<"u1", "p1">>}

(***************************************************************************)
(* Properties of pin creation.                                             *)
(***************************************************************************)
\* a finished create-pin request that no other operation overlapped
AloneCreate(rq) == rq.pc = "done" /\ rq.kind = "create" /\ rq.alone

\* the request has a missing or empty title, or no part in the field "image"
Incomplete(rq) ==
    \/ rq.body.title.t = "undefined"
    \/ rq.body.title.v = <<>>
    \/ rq.file.part = "none"

UploadThenInsertState ==
    /\ \A p \in db.pins : p.image_url \in cloud
    /\ \A r \in Slots :
           LET rq == reqs[r] IN
           (rq.pc = "done" /\ rq.kind = "create") =>
               /\ rq.status = 201 =>
                      /\ rq.file.path \in cloud
                      /\ rq.alone => \E p \in rq.after.pins \ rq.before.pins :
                                         p.id = rq.obj /\ p.image_url = rq.file.path
               /\ rq.err = "upload" =>
                      /\ rq.file.path = "-"
                      /\ rq.alone => rq.after = rq.before
               /\ rq.err = "foreign_key" => rq.file.path \in cloud

\* a step inserts only rows whose image was stored before the step, and no
\* step removes an image from the blob store
UploadThenInsertStep ==
    /\ \A p \in db'.pins \ db.pins : p.image_url \in cloud
    /\ cloud \subseteq cloud'

\* C16: a pin row is inserted only after the upload of its image has
\* succeeded and references the URL the upload returned; a failed upload
\* inserts no row; after a failed insert the uploaded image stays in the
\* blob store, and nothing ever deletes an image from it.
C16_UploadThenInsert == []UploadThenInsertState /\ [][UploadThenInsertStep]_vars

\* the owner is deleted between the upload and the insert: the insert fails
\* and the image stays
C16_Witness ==
    \E r \in Slots :
        /\ reqs[r].pc = "done" /\ reqs[r].kind = "create"
        /\ reqs[r].status = 500 /\ reqs[r].err = "foreign_key"
        /\ reqs[r].file.path \in cloud
        /\ \A p \in db.pins : p.image_url # reqs[r].file.path

(***************************************************************************)
(* Properties of the profile.                                              *)
(***************************************************************************)
\* a finished, answered profile request that no other operation overlapped
AloneProfile(rq) ==
    rq.pc = "done" /\ rq.kind = "profile" /\ rq.alone /\ rq.status = 200

\* the users that follow id, and the users id follows, in store d
FollowersOf(d, id) == {pr[1] : pr \in {x \in RelPairs(d, "follow") : x[2] = id}}
FollowedBy(d, id) == {pr[2] : pr \in {x \in RelPairs(d, "follow") : x[1] = id}}

\* slot r1 holds a successful follow toggle and slot r2 a profile of its
\* target read from the store the toggle left
ProfileAfterToggle(r1, r2) ==
    /\ ValidToggle(reqs[r1]) /\ reqs[r1].kind = "follow" /\ reqs[r1].status = 200
    /\ AloneProfile(reqs[r2]) /\ reqs[r2].obj = reqs[r1].obj
    /\ reqs[r2].before = reqs[r1].after

\* C18: the profile of a user reports the number of follow rows that point
\* at the user, the number of follow rows of the user and the number of the
\* user's pins in the store it is read from; read after A follows B, the
\* profile of B counts A, one more than before, and read after A unfollows
\* B it counts one less.
C18_ProfileCounts ==
    /\ \A r \in Slots :
           LET rq == reqs[r] IN
           AloneProfile(rq) =>
               /\ rq.ret.followers_count = Cardinality(FollowersOf(rq.before, rq.obj))
               /\ rq.ret.following_count = Cardinality(FollowedBy(rq.before, rq.obj))
               /\ rq.ret.pins_count
                      = Cardinality({p \in rq.before.pins : p.user_id = rq.obj})
               /\ rq.after = rq.before
    /\ \A r1, r2 \in Slots :
           ProfileAfterToggle(r1, r2) =>
               LET was == Cardinality(FollowersOf(reqs[r1].before, reqs[r1].obj)) IN
               IF reqs[r1].active
               THEN /\ reqs[r2].ret.followers_count = was + 1
                    /\ reqs[r1].user \in FollowersOf(reqs[r2].before, reqs[r2].obj)
               ELSE reqs[r2].ret.followers_count = was - 1

\* u1 follows u2 and unfollows again; the profile of u2 then counts no
\* follower, and u2 follows nobody and has no pin
C18_Witness ==
    \E r1, r2 \in Slots :
        /\ ProfileAfterToggle(r1, r2)
        /\ reqs[r1].user = "u1" /\ reqs[r1].obj = "u2" /\ ~reqs[r1].active
        /\ reqs[r2].ret = Profile("u2", 0, 0, 0)

(***************************************************************************)
(* Properties of the counts reported with a pin.                           *)
(***************************************************************************)
\* the number of users with a like (save) row for the pin in store d
RowsFor(d, kind, pinId) == Cardinality({pr \in RelPairs(d, kind) : pr[2] = pinId})

\* the counts reported with a pin are the row counts of store d
CountsMatch(d, pin) ==
    /\ pin.likes_count = RowsFor(d, "like", pin.id)
    /\ pin.saves_count = RowsFor(d, "save", pin.id)

\* a step that answers a read reports the counts of the store it reads, and
\* a step that answers a creation reports 0 and 0 for a pin that has no row
CountsAtRead ==
    /\ view' # view =>
           \A i \in 1..Len(view'.pins) : CountsMatch(db, view'.pins[i])
    /\ \A r \in Slots :
           (reqs'[r].pc = "done" /\ reqs[r].pc = "createInsert" /\ reqs'[r].status = 201)
               => /\ reqs'[r].ret.likes_count = 0
                  /\ reqs'[r].ret.saves_count = 0
                  /\ reqs'[r].ret.id \in PinIds(db') \ PinIds(db)
                  /\ CountsMatch(db', reqs'[r].ret)

\* C19: every response that carries a pin (feed page, single pin, a user's
\* pins, saved pins, created pin) reports likes_count and saves_count equal
\* to the numbers of pin_likes and pin_saves rows of that pin in the store at
\* the time of the read, and a created pin is reported with 0 and 0.
C19_CountsAtRead == [][CountsAtRead]_vars

\* the feed read after both users liked p1, u2 saved it and p2 was created
C19_Witness ==
    /\ view.endpoint = "pins" /\ view.status = 200 /\ Len(view.pins) = 2
    /\ \E i \in 1..2 : /\ view.pins[i].id = "p1"
                        /\ view.pins[i].likes_count = 2
                        /\ view.pins[i].saves_count = 0
    /\ \E r \in Slots : /\ reqs[r].pc = "done" /\ reqs[r].kind = "create"
                         /\ reqs[r].status = 201 /\ reqs[r].ret.likes_count = 0

(***************************************************************************)
(* Properties of the page and limit parameters.                            *)
(***************************************************************************)
\* C24: for every value of the page and limit parameters the feed handlers
\* use an effective page of at least 1 and an effective limit of 20 unless a
\* limit is supplied, and read from offset (page - 1) * limit, which is not
\* negative.
C24_EffectivePage ==
    (view.endpoint \in {"pins", "userPins", "saved"} /\ view.status \in {200, 500}) =>
        /\ view.page >= 1
        /\ view.q.limit = Absent => view.limit = 20
        /\ (view.page - 1) * view.limit >= 0

(***************************************************************************)
(* Properties of concurrent toggles and of rejected creations.             *)
(***************************************************************************)
\* C25: when the first two requests are toggles of the same actor on the
\* same object and both are answered with success, the store ends as it was
\* before the two, whether the two ran one after the other or with their
\* checks and writes interleaved.
C25_ConcurrentPairRestores ==
    \A r1, r2 \in Slots :
        (/\ r1 # r2 /\ started = 2
         /\ reqs[r1].pc = "done" /\ reqs[r2].pc = "done"
         /\ reqs[r1].kind = reqs[r2].kind /\ reqs[r1].obj = reqs[r2].obj
         /\ reqs[r1].user = reqs[r2].user
         /\ reqs[r1].status = 200 /\ reqs[r2].status = 200)
            => db = RaceDb

\* C26: a create-pin request rejected with 400 for a missing title or a
\* missing image has stored no image in the blob store.
C26_RejectedWithoutUpload ==
    \A r \in Slots :
        LET rq == reqs[r] IN
        (rq.pc = "done" /\ rq.kind = "create" /\ rq.status = 400
             /\ rq.msg = "Title and image are required")
            => rq.file.path \notin cloud


(***************************************************************************)
(* Properties of HomePage.                                                 *)
(***************************************************************************)
\* C21: the list of HomePage never holds two entries with the same pin id,
\* whatever the order of the load-more calls, the search changes and the
\* arrivals of the responses, and whatever pins other clients create between
\* the fetches
C21_NoDuplicateIds ==
    \A i, j \in 1..Len(ui.pins) : ui.pins[i].id = ui.pins[j].id => i = j

\* C27: once no call of fetchPins waits for its response, every pin of the
\* list is a pin the current search selects: no response to a fetch made
\* under an earlier search has been appended or substituted
C27_OnlyCurrentQuery ==
    (ui.mounted /\ ui.fetches = {}) =>
        \A i \in 1..Len(ui.pins) :
            \E p \in FilteredPins(db, HomeQuery(1, ui.query)) : p.id = ui.pins[i].id

\* the list is complete: hasMore is false and no fetch waits for its response
Terminated == ui.mounted /\ ~ui.hasMore /\ ui.fetches = {}

\* the empty pages a store of n pins gives to loadMore
ExtraFetches(n) == IF n > 0 /\ n % HomeLimit = 0 THEN 1 ELSE 0

\* C23: over a store of N pins that does not change, the fetches of HomePage
\* end: hasMore becomes false, with no request left, and stays so; the page
\* has then made N div 20 + 1 fetches, and loadMore has received exactly one
\* empty page when N is a positive multiple of 20 and none otherwise
C23_LoadMoreTerminates ==
    /\ <>[]Terminated
    /\ [](ui.empties <= ExtraFetches(Cardinality(db.pins)))
    /\ [](Terminated =>
            /\ ui.issued = (Cardinality(db.pins) \div HomeLimit) + 1
            /\ ui.empties = ExtraFetches(Cardinality(db.pins))
            /\ Len(ui.pins) = Cardinality(db.pins))

\* two full pages: the third fetch came back empty and ended the sequence
C23_Witness ==
    /\ Terminated
    /\ Cardinality(db.pins) = 2 * HomeLimit
    /\ ui.issued = 3
    /\ ui.empties = 1

(***************************************************************************)
(* Properties of the like, save and follow buttons.                        *)
(***************************************************************************)
\* the step in which the handler of the click behind request r ends
Answered(r) == ui.pending[r] # NoClick /\ ui'.pending[r] = NoClick

\* a failed toggle leaves the component and the list of its parent as they
\* are and notifies
FailedToggleStep ==
    \A r \in Slots :
        (Answered(r) /\ reqs[r].status # 200) =>
            LET c == ui.pending[r] IN
            /\ ui'[c.widget] = ui[c.widget]
            /\ ui'.pins = ui.pins
            /\ ui'.toast = (IF c.kind = "like" THEN "Failed to like pin"
                            ELSE IF c.kind = "save" THEN "Failed to save pin"
                            ELSE "Failed to follow user")

\* a failed fetch leaves the list, the page number and hasMore as they are
\* and notifies
FailedFetchStep ==
    \A f \in ui.fetches :
        (f.pc = "answered" /\ f.resp.status # 200 /\ f \notin ui'.fetches) =>
            /\ ui'.pins = ui.pins
            /\ ui'.page = ui.page
            /\ ui'.hasMore = ui.hasMore
            /\ ui'.toast = "Failed to load pins"

\* C22: when a like, save or follow request fails, the component shows a
\* notification and its flag, its count and the pin list of its parent stay
\* as they were; when a page fetch fails, HomePage shows a notification and
\* its pin list, page number and hasMore stay as they were
C22_FailureLeavesState == [][FailedToggleStep /\ FailedFetchStep]_vars

\* a like of the card has failed and was answered, and then a load-more of
\* a list that holds a page of pins has failed
C22_Witness ==
    /\ ui.card.mounted
    /\ \E r \in Slots : reqs[r].pc = "done" /\ reqs[r].kind = "like" /\ reqs[r].status = 500
    /\ \A r \in Slots : ui.pending[r] = NoClick
    /\ ui.toast = "Failed to load pins"
    /\ ui.fetches = {}
    /\ Len(ui.pins) = HomeLimit

\* C28: while no toggle is under way, the flag of every button shown to the
\* logged-in user (isLiked, isSaved, isFollowing) tells whether the store
\* holds the row of that user and the object, from the load of the page on
C28_FlagMatchesStore ==
    (\A r \in Slots : ui.pending[r] = NoClick /\ ~InFlight(r)) =>
        \A c \in Controls :
            (Rendered(c[1]) /\ ui.user # NoToken) =>
                ui[c[1]][FlagOf(c[2])] = HasRel(db, c[2], ui.user.uid, ObjOf(c[2]))

\* C29: no count a component shows (likesCount, savesCount, followersCount)
\* is ever negative
C29_CountsNotNegative ==
    \A c \in Controls : ui[c[1]].mounted => ui[c[1]][CountOf(c[2])] >= 0

\* the count a successful like or save of the card writes to its parent is
\* the count the card holds
PinUpdateStep ==
    \A r \in Slots :
        (Answered(r) /\ reqs[r].status = 200 /\ ui.pending[r].widget = "card") =>
            LET kind == ui.pending[r].kind
                field == IF kind = "like" THEN "likes_count" ELSE "saves_count"
            IN  \A i \in 1..Len(ui'.pins) :
                    ui'.pins[i].id = ObjOf(kind) =>
                        ui'.pins[i][field] = ui'.card[CountOf(kind)]

\* C30: after every successful like or save in a PinCard, the count given to
\* the parent through onPinUpdate equals the count of the card, also when
\* the button is clicked again before the first response
C30_ParentCountIsLocalCount == [][PinUpdateStep]_vars
====
